---- MODULE Spec2Model ----
(***************************************************************************)
(* CurrencyDashboard backend (server.mjs): the POST /api/analysis request  *)
(* pipeline.  RateLimiter -> parseBody -> validateAnalysisInput ->         *)
(* ResponseCache.get -> OpenAIClient.makeRequest (retry) ->                *)
(* ResponseCache.set -> sendJson, with several requests in flight.         *)
(*                                                                         *)
(* Node runs every handler on one thread: a handler runs without           *)
(* interruption between two awaits, so one action of the model is the code *)
(* between two suspension points of one handler.                           *)
(*                                                                         *)
(* Time is counted in ticks; the windows of the rate limiter and the TTL   *)
(* of the cache are scaled to a few ticks.  Request fields are integers.   *)
(***************************************************************************)
EXTENDS Integers, Sequences, FiniteSets, TLC

\* ------------------------------------------------------------------ bounds
NumReq == 2          \* requests of one run of Spec (the whole pipeline)
NumCache == 3        \* requests of one run of SpecCache (valid requests)
NumArrivals == 5     \* requests of one run of SpecLimiter (arrivals only)
MaxTime == 3         \* last tick of the clock
MaxFaults == 4       \* failed upstream fetches in one run
MinuteTicks == 1     \* the 60 s window of the limiter, in ticks
HourTicks == 3       \* the 3600 s window of the limiter, in ticks
TtlTicks == 1        \* the 1800 s TTL of the cache, in ticks
LimitPerMinute == 1  \* maxPerMinute (30 in the source), scaled
LimitPerHour == 2    \* maxPerHour (200 in the source), scaled
KeptRecords == 2     \* the records the metrics keep (1000 in the source), scaled
ReadyErrors == 1     \* error records the readiness probe tolerates (5), scaled

\* ------------------------------------------------------- program constants
maxRetries == 3
baseDelayMs == 1000

maxPerMinute == LimitPerMinute
maxPerHour == LimitPerHour
ttlSeconds == TtlTicks
maxRecords == KeptRecords
maxReadyErrors == ReadyErrors

Clients == {"c1", "c2"}
Null == "null"

\* The content of the upstream's answer to request i: opaque to the server,
\* and a different text for every invocation.
TextOf(i) == <<"t1", "t2", "t3", "t4", "t5", "t6">>[i]

\* getMockAnalysis picks one of three canned analyses at random.
MockTexts == {"mock0", "mock1", "mock2"}

\* ------------------------------------------------------------ request body
\* The value of a request field after JSON.parse and destructuring: a number,
\* undefined (field absent), null, a boolean, a string that reads as the
\* number n ("3"), a string that reads as no number ("invalid").  v is what
\* the value counts as in a comparison with a number (null as 0, true as 1,
\* "3" as 3); for undefined and "invalid", which count as NaN, it is unused.
Num(n) == [t |-> "num", v |-> n]
Undef == [t |-> "undef", v |-> 0]
JNull == [t |-> "null", v |-> 0]
Bool(b) == [t |-> "bool", v |-> IF b THEN 1 ELSE 0]
Str(n) == [t |-> "str", v |-> n]
Text == [t |-> "text", v |-> 0]

\* A request body: whether it parses as JSON, its five fields, whether the
\* fields come in another order than the handler names them, and whether the
\* body has other fields besides.
Body(f, e, s, g, b) ==
    [json |-> TRUE, fedRate |-> f, exchangeRate |-> e, stockKrw |-> s,
     goldKrw |-> g, bond |-> b, reordered |-> FALSE, extra |-> FALSE]

ScenarioA == Body(Num(3), Num(1250), Num(85000), Num(120000), Num(95))
ScenarioA2 == Body(Num(3), Num(1252), Num(85000), Num(120000), Num(95))
ScenarioB == Body(Num(0 - 10), Num(1250), Num(85000), Num(120000), Num(95))
ScenarioA1 == [ScenarioA EXCEPT !.reordered = TRUE, !.extra = TRUE]
Malformed == [ScenarioA EXCEPT !.json = FALSE]
NoBody == [Malformed EXCEPT !.fedRate = Undef]

Bodies == {ScenarioA, ScenarioA2, ScenarioB, Malformed}

\* now       Date.now(), in ticks
\* requests  rateLimiter.requests: the admitted {clientId, time}, oldest first
\* cache     responseCache.cache: key -> {data, timestamp}
\* reqs      the handler invocations of POST /api/analysis, one per request
\* metrics   metricsCollector.requests
\* hasApiKey whether OPENAI_API_KEY is usable (else the client is in test mode)
VARIABLES now, requests, cache, reqs, metrics, hasApiKey

vars == <<now, requests, cache, reqs, metrics, hasApiKey>>

\* ------------------------------------------------------------ RateLimiter
\* The filter keeping a timestamp that is exactly one hour old.
Prune_offByOne(rs, t) == SelectSeq(rs, LAMBDA r : r.time >= t - HourTicks)

\* requests.filter(r => r.time > oneHourAgo)
Prune(rs, t) == SelectSeq(rs, LAMBDA r : r.time > t - HourTicks)

\* The minute count taken over the timestamps of every client.
recentMinute_allClients(rs, clientId, t) ==
    Len(SelectSeq(rs, LAMBDA r : r.time > t - MinuteTicks))

\* requests.filter(r => r.clientId === clientId && r.time > oneMinuteAgo).length
recentMinute(rs, clientId, t) ==
    Len(SelectSeq(rs, LAMBDA r : r.clientId = clientId /\ r.time > t - MinuteTicks))

\* requests.filter(r => r.clientId === clientId).length, after the pruning
recentHour(rs, clientId, t) ==
    Len(SelectSeq(Prune(rs, t), LAMBDA r : r.clientId = clientId))

\* isAllowed with the minute test written > instead of >=.
isAllowed_offByOne(rs, clientId, t) ==
    LET kept == Prune(rs, t) IN
    IF recentMinute(kept, clientId, t) > maxPerMinute
    THEN [allowed |-> FALSE, requests |-> kept]
    ELSE IF recentHour(kept, clientId, t) >= maxPerHour
    THEN [allowed |-> FALSE, requests |-> kept]
    ELSE [allowed |-> TRUE,
          requests |-> Append(kept, [clientId |-> clientId, time |-> t])]

\* isAllowed without the hour test.
isAllowed_noHour(rs, clientId, t) ==
    LET kept == Prune(rs, t) IN
    IF recentMinute(kept, clientId, t) >= maxPerMinute
    THEN [allowed |-> FALSE, requests |-> kept]
    ELSE [allowed |-> TRUE,
          requests |-> Append(kept, [clientId |-> clientId, time |-> t])]

\* isAllowed that admits without recording the timestamp.
isAllowed_noAppend(rs, clientId, t) ==
    LET kept == Prune(rs, t) IN
    IF recentMinute(kept, clientId, t) >= maxPerMinute
    THEN [allowed |-> FALSE, requests |-> kept]
    ELSE IF recentHour(kept, clientId, t) >= maxPerHour
    THEN [allowed |-> FALSE, requests |-> kept]
    ELSE [allowed |-> TRUE, requests |-> kept]

\* isAllowed that records the timestamp of a denied check too.
isAllowed_recordDenied(rs, clientId, t) ==
    LET kept == Prune(rs, t)
        pushed == Append(kept, [clientId |-> clientId, time |-> t])
    IN IF recentMinute(kept, clientId, t) >= maxPerMinute
       THEN [allowed |-> FALSE, requests |-> pushed]
       ELSE IF recentHour(kept, clientId, t) >= maxPerHour
       THEN [allowed |-> FALSE, requests |-> pushed]
       ELSE [allowed |-> TRUE, requests |-> pushed]

\* RateLimiter.isAllowed at time t: the answer and the new this.requests.
isAllowed(rs, clientId, t) ==
    LET kept == Prune(rs, t) IN
    IF recentMinute(kept, clientId, t) >= maxPerMinute
    THEN [allowed |-> FALSE, requests |-> kept]
    ELSE IF recentHour(kept, clientId, t) >= maxPerHour
    THEN [allowed |-> FALSE, requests |-> kept]
    ELSE [allowed |-> TRUE,
          requests |-> Append(kept, [clientId |-> clientId, time |-> t])]

\* ---------------------------------------------------------- ResponseCache
\* getKey given the parsed request body as it came, not the five fields the
\* handler picks from it.
getKey_wholeBody(input) == input

\* getKey made of the Fed rate alone.
getKey_fedRateOnly(input) == <<input.fedRate>>

\* getKey: JSON.stringify of the object that the handler builds from the five
\* fields, always in the same order; it is one to one on the five (tagged)
\* values, so the key is their tuple.
getKey(input) ==
    <<input.fedRate, input.exchangeRate, input.stockKrw, input.goldKrw, input.bond>>

\* get with the age test written >= instead of >.
get_offByOne(c, input, t) ==
    LET key == getKey(input) IN
    IF key \notin DOMAIN c
    THEN [data |-> Null, cache |-> c]
    ELSE IF t - c[key].timestamp >= ttlSeconds
    THEN [data |-> Null, cache |-> [k \in DOMAIN c \ {key} |-> c[k]]]
    ELSE [data |-> c[key].data, cache |-> c]

\* get that reports an expired entry as a miss but leaves it in the map.
get_noDelete(c, input, t) ==
    LET key == getKey(input) IN
    IF key \notin DOMAIN c
    THEN [data |-> Null, cache |-> c]
    ELSE IF t - c[key].timestamp > ttlSeconds
    THEN [data |-> Null, cache |-> c]
    ELSE [data |-> c[key].data, cache |-> c]

\* get without the age test.
get_noExpiry(c, input, t) ==
    LET key == getKey(input) IN
    IF key \notin DOMAIN c
    THEN [data |-> Null, cache |-> c]
    ELSE [data |-> c[key].data, cache |-> c]

\* ResponseCache.get at time t: the value returned (Null for a miss) and the
\* map after the call.
get(c, input, t) ==
    LET key == getKey(input) IN
    IF key \notin DOMAIN c
    THEN [data |-> Null, cache |-> c]
    ELSE IF t - c[key].timestamp > ttlSeconds
    THEN [data |-> Null, cache |-> [k \in DOMAIN c \ {key} |-> c[k]]]
    ELSE [data |-> c[key].data, cache |-> c]

\* set that stores nothing.
set_dropped(c, input, data, t) == c

\* set that keeps the entry a key already has.
set_keepFirst(c, input, data, t) ==
    LET key == getKey(input) IN
    [k \in DOMAIN c \cup {key} |->
        IF k \in DOMAIN c THEN c[k] ELSE [data |-> data, timestamp |-> t]]

\* set that replaces the value of an entry and keeps its timestamp.
set_keepStamp(c, input, data, t) ==
    LET key == getKey(input) IN
    [k \in DOMAIN c \cup {key} |->
        IF k = key
        THEN [data |-> data,
              timestamp |-> IF key \in DOMAIN c THEN c[key].timestamp ELSE t]
        ELSE c[k]]

\* ResponseCache.set at time t: the map after the call.
set(c, input, data, t) ==
    LET key == getKey(input) IN
    [k \in DOMAIN c \cup {key} |->
        IF k = key THEN [data |-> data, timestamp |-> t] ELSE c[k]]

\* ------------------------------------------------------- input validation
\* Number.isFinite(Number(x)): Number(undefined) and Number("invalid") are NaN,
\* Number(null) is 0, Number(true) is 1, Number("3") is 3.
isFinite(x) == x.t \in {"num", "null", "bool", "str"}

\* validateAnalysisInput with the lower bound of the Fed rate forgotten.
validateAnalysisInput_noLower(d) ==
    IF ~(isFinite(d.fedRate) /\ isFinite(d.exchangeRate) /\ isFinite(d.stockKrw)
         /\ isFinite(d.goldKrw) /\ isFinite(d.bond))
    THEN "numbers"
    ELSE IF d.fedRate.v > 20
    THEN "fedRate"
    ELSE IF d.exchangeRate.v < 500 \/ d.exchangeRate.v > 2500
    THEN "exchangeRate"
    ELSE IF d.stockKrw.v < 0 \/ d.goldKrw.v < 0 \/ d.bond.v < 0
    THEN "assets"
    ELSE "ok"

\* validateAnalysisInput: "ok", or which check failed.
validateAnalysisInput(d) ==
    IF ~(isFinite(d.fedRate) /\ isFinite(d.exchangeRate) /\ isFinite(d.stockKrw)
         /\ isFinite(d.goldKrw) /\ isFinite(d.bond))
    THEN "numbers"
    ELSE IF d.fedRate.v < 0 - 5 \/ d.fedRate.v > 20
    THEN "fedRate"
    ELSE IF d.exchangeRate.v < 500 \/ d.exchangeRate.v > 2500
    THEN "exchangeRate"
    ELSE IF d.stockKrw.v < 0 \/ d.goldKrw.v < 0 \/ d.bond.v < 0
    THEN "assets"
    ELSE "ok"

\* -------------------------------------------------------- MetricsCollector
\* recordRequest: one record per answered request, the oldest dropped once
\* the list is longer than maxRecords.
recordRequest(m, statusCode, isCached) ==
    LET pushed == Append(m, [statusCode |-> statusCode, cached |-> isCached])
    IN IF Len(pushed) > maxRecords THEN Tail(pushed) ELSE pushed

\* getStats: the object that GET /api/stats sends.  Every record of a run
\* is younger than five minutes; the two rates are whole percents here
\* (toFixed(2) strings in the code), latencies and the endpoint list are not
\* modelled.
getStats(m) ==
    LET errors == Cardinality({k \in DOMAIN m : m[k].statusCode >= 400})
        cachedRequests == Cardinality({k \in DOMAIN m : m[k].cached})
    IN [period |-> "all_time",
        requests_total |-> Len(m),
        requests_last_5min |-> Len(m),
        errors_total |-> errors,
        error_rate_percent |-> IF Len(m) > 0 THEN (errors * 100) \div Len(m) ELSE 0,
        avg_latency_ms |-> "ms",
        cache_hit_rate_percent |->
            IF Len(m) > 0 THEN (cachedRequests * 100) \div Len(m) ELSE 0,
        top_endpoints |-> "endpoints"]

\* ------------------------------------------------------------ HealthChecker
\* What checkOpenAI and getMemoryStatus can report.
OpenAIStatuses == {"healthy", "degraded", "unhealthy"}
MemoryStatuses == {"healthy", "degraded"}

\* getHealthStatus, checkOpenAI having reported `openai` and getMemoryStatus
\* `memory`, with `size` entries in the cache at time t.  getUptime formats
\* a string ("0h 2m 5s") and the timestamp is an ISO string.
getHealthStatus(openai, memory, size, t) ==
    [status |-> IF openai = "unhealthy" \/ memory = "unhealthy" THEN "unhealthy"
                ELSE IF openai = "degraded" \/ memory = "degraded" THEN "degraded"
                ELSE "healthy",
     uptime |-> [t |-> "str", v |-> t],
     timestamp |-> [t |-> "str", v |-> t],
     checks |-> [openai |-> openai, memory |-> memory,
                 cache |-> [status |-> "healthy", size |-> size]],
     version |-> "version",
     environment |-> "development"]

\* ------------------------------------------------------------ OpenAIClient
\* What one fetch of the chat completions endpoint can do.
\*   ok       200 with message content        empty    200 without content
\*   timeout  aborted by the 30 s timer       neterr   fetch rejects
\*   s429     HTTP 429                        s4xx     HTTP 400, 401, ...
\*   s5xx     HTTP 500, 503, ...              badbody  response.json() throws
Outcomes == {"ok", "empty", "timeout", "neterr", "s429", "s4xx", "s5xx", "badbody"}
Failures == Outcomes \ {"ok", "empty"}

\* process.env.OPENAI_API_KEY, sent in the Authorization header of every fetch.
apiKey == "sk-key"

\* No error thrown.
NoError == [message |-> Null, detail |-> Null]

\* The message of the Error that makeRequest throws after a fetch that did
\* `outcome`, the upstream's body being `text`: the timeout message of line
\* 384, the status with errorData.error.message of line 377, or the message
\* of what fetch or response.json() threw (line 394).
ErrorMessage(outcome, text) ==
    CASE outcome = "timeout" ->
            [message |-> "OpenAI API request timeout (30s)", detail |-> Null]
      [] outcome \in {"s429", "s4xx", "s5xx"} ->
            [message |-> "OpenAI API Error", detail |-> text]
      [] OTHER -> [message |-> outcome, detail |-> text]

Pow2(n) == IF n = 0 THEN 1 ELSE IF n = 1 THEN 2 ELSE IF n = 2 THEN 4 ELSE 8

\* A delay growing by the base at every retry.
delayMs_linear(retryCount) == (retryCount + 1) * baseDelayMs

\* Math.pow(2, retryCount) * 1000
delayMs(retryCount) == Pow2(retryCount) * baseDelayMs

\* makeRequest sleeping the base delay before every retry.
makeRequest_flatDelay(retryCount, outcome, text) ==
    CASE outcome = "ok" -> [k |-> "return", value |-> text, delay |-> 0]
      [] outcome = "empty" -> [k |-> "return", value |-> Null, delay |-> 0]
      [] outcome = "timeout" -> [k |-> "throw", value |-> Null, delay |-> 0]
      [] OTHER ->
            IF retryCount < maxRetries
            THEN [k |-> "retry", value |-> Null, delay |-> baseDelayMs]
            ELSE [k |-> "throw", value |-> Null, delay |-> 0]

\* makeRequest retrying while retryCount <= maxRetries.
makeRequest_oneMore(retryCount, outcome, text) ==
    CASE outcome = "ok" -> [k |-> "return", value |-> text, delay |-> 0]
      [] outcome = "empty" -> [k |-> "return", value |-> Null, delay |-> 0]
      [] outcome = "timeout" -> [k |-> "throw", value |-> Null, delay |-> 0]
      [] OTHER ->
            IF retryCount <= maxRetries
            THEN [k |-> "retry", value |-> Null, delay |-> delayMs(retryCount)]
            ELSE [k |-> "throw", value |-> Null, delay |-> 0]

\* One activation of makeRequest(messages, retryCount) whose fetch does
\* `outcome`: it returns a value, throws, or sleeps and calls itself again.
makeRequest(retryCount, outcome, text) ==
    CASE outcome = "ok" -> [k |-> "return", value |-> text, delay |-> 0]
      [] outcome = "empty" -> [k |-> "return", value |-> Null, delay |-> 0]
      [] outcome = "timeout" ->
            [k |-> "throw", value |-> ErrorMessage(outcome, text), delay |-> 0]
      [] outcome = "s429" ->
            IF retryCount < maxRetries
            THEN [k |-> "retry", value |-> Null, delay |-> delayMs(retryCount)]
            ELSE [k |-> "throw", value |-> ErrorMessage(outcome, text), delay |-> 0]
      [] OTHER ->
            IF retryCount < maxRetries
            THEN [k |-> "retry", value |-> Null, delay |-> delayMs(retryCount)]
            ELSE [k |-> "throw", value |-> ErrorMessage(outcome, text), delay |-> 0]

\* ---------------------------------------------------------------- handlers
\* One handler invocation of POST /api/analysis.  pc: "new" not yet received,
\* "body" awaiting parseBody, "call" awaiting client.analyzeMarket, "done"
\* answered.  startTime and endTime are the values of Date.now() when the
\* request was received and when its response was built; retryCount is the
\* argument of the running makeRequest; attempts, timeouts, last and slept
\* count its fetches, those that timed out, the outcome of the latest and the
\* backoff slept so far (ms).
NewReq ==
    [pc |-> "new", clientId |-> "none", body |-> NoBody, allowed |-> FALSE,
     startTime |-> 0, endTime |-> 0,
     statusCode |-> 0, cached |-> FALSE, analysis |-> Null, error |-> "none",
     invocations |-> 0, retryCount |-> 0, attempts |-> 0, timeouts |-> 0,
     last |-> "none", slept |-> 0, fault |-> "none",
     authorization |-> Null, thrown |-> NoError,
     route |-> "POST /api/analysis", reply |-> <<>>]

Ids == 1..NumArrivals

\* sendJson followed by metricsCollector.recordRequest, then return.
Respond(i, r, statusCode, isCached, analysis, error) ==
    /\ reqs' = [reqs EXCEPT ![i] =
                  [r EXCEPT !.pc = "done", !.statusCode = statusCode,
                            !.cached = isCached, !.analysis = analysis,
                            !.error = error, !.endTime = now]]
    /\ metrics' = recordRequest(metrics, statusCode, isCached)

\* generateRequestId: a different id for every request.
RequestIdOf(i) == <<"r1", "r2", "r3", "r4", "r5", "r6">>[i]

\* The JSON payload that was sent in answer to request i (<<>> before the
\* answer): its keys, each with what tells its value apart.  Durations are
\* not modelled ("ms"); the error messages are the fixed texts of the handler,
\* one per branch, here named after the branch.
payload(i) ==
    LET r == reqs[i]
    IN CASE r.pc # "done" -> <<>>
         [] r.route # "POST /api/analysis" -> r.reply
         [] r.statusCode = 200 /\ r.cached ->
               [analysis |-> r.analysis, cached |-> "true", duration_ms |-> "ms"]
         [] r.statusCode = 200 /\ ~r.cached ->
               [analysis |-> r.analysis, cached |-> "false", duration_ms |-> "ms",
                ai_duration_ms |-> "ms", confidence_score |-> "0.85"]
         [] r.statusCode = 500 /\ r.error = "server" ->
               [error |-> r.error, requestId |-> RequestIdOf(i)]
         [] OTHER -> [error |-> r.error]

\* The handler answering a denial without recording it.
Arrive_unrecordedDenial(i, c) ==
    /\ reqs[i].pc = "new"
    /\ LET a == isAllowed(requests, c, now)
           r == [reqs[i] EXCEPT !.clientId = c, !.startTime = now,
                                !.allowed = a.allowed]
       IN /\ requests' = a.requests
          /\ reqs' = [reqs EXCEPT ![i] =
                        IF a.allowed
                        THEN [r EXCEPT !.pc = "body"]
                        ELSE [r EXCEPT !.pc = "done", !.statusCode = 429,
                                       !.error = "rate_limit", !.endTime = now]]
          /\ UNCHANGED metrics
    /\ UNCHANGED <<now, cache, hasApiKey>>

\* The request is received: lines 462-464 and the rate limiting check.
Arrive(i, c) ==
    /\ reqs[i].pc = "new"
    /\ LET a == isAllowed(requests, c, now)
           r == [reqs[i] EXCEPT !.clientId = c, !.startTime = now,
                                !.allowed = a.allowed]
       IN /\ requests' = a.requests
          /\ IF a.allowed
             THEN /\ reqs' = [reqs EXCEPT ![i] = [r EXCEPT !.pc = "body"]]
                  /\ UNCHANGED metrics
             ELSE Respond(i, r, 429, FALSE, Null, "rate_limit")
    /\ UNCHANGED <<now, cache, hasApiKey>>

\* The handler giving the slot back when the lookup hits.
ParseBody_refundHit(i, b) ==
    /\ reqs[i].pc = "body"
    /\ LET r == [reqs[i] EXCEPT !.body = b]
           v == validateAnalysisInput(b)
           g == get(cache, b, now)
       IN IF ~b.json
          THEN Respond(i, r, 500, FALSE, Null, "server") /\ UNCHANGED <<cache, requests>>
          ELSE IF v # "ok"
          THEN Respond(i, r, 400, FALSE, Null, v) /\ UNCHANGED <<cache, requests>>
          ELSE /\ cache' = g.cache
               /\ IF g.data # Null
                  THEN /\ Respond(i, r, 200, TRUE, g.data, "none")
                       /\ requests' = SelectSeq(requests,
                              LAMBDA q : ~(q.clientId = r.clientId /\ q.time = r.startTime))
                  ELSE /\ reqs' = [reqs EXCEPT ![i] =
                                     [r EXCEPT !.pc = "call", !.invocations = @ + 1]]
                       /\ UNCHANGED <<metrics, requests>>
    /\ UNCHANGED <<now, hasApiKey>>

\* The handler reading the fields of a body that JSON.parse rejected.
ParseBody_noParseError(i, b) ==
    /\ reqs[i].pc = "body"
    /\ LET r == [reqs[i] EXCEPT !.body = b]
           v == validateAnalysisInput(b)
           g == get(cache, b, now)
       IN IF v # "ok"
          THEN Respond(i, r, 400, FALSE, Null, v) /\ UNCHANGED cache
          ELSE /\ cache' = g.cache
               /\ IF g.data # Null
                  THEN Respond(i, r, 200, TRUE, g.data, "none")
                  ELSE /\ reqs' = [reqs EXCEPT ![i] =
                                     [r EXCEPT !.pc = "call", !.invocations = @ + 1]]
                       /\ UNCHANGED metrics
    /\ UNCHANGED <<now, requests, hasApiKey>>

\* parseBody resolves (or throws): validation, cache lookup, and on a miss
\* the construction of the client and the call of analyzeMarket.
ParseBody(i, b) ==
    /\ reqs[i].pc = "body"
    /\ LET r == [reqs[i] EXCEPT !.body = b]
           v == validateAnalysisInput(b)
           g == get(cache, b, now)
       IN IF ~b.json
          THEN Respond(i, r, 500, FALSE, Null, "server") /\ UNCHANGED cache
          ELSE IF v # "ok"
          THEN Respond(i, r, 400, FALSE, Null, v) /\ UNCHANGED cache
          ELSE /\ cache' = g.cache
               /\ IF g.data # Null
                  THEN Respond(i, r, 200, TRUE, g.data, "none")
                  ELSE /\ reqs' = [reqs EXCEPT ![i] =
                                     [r EXCEPT !.pc = "call", !.invocations = @ + 1]]
                       /\ UNCHANGED metrics
    /\ UNCHANGED <<now, requests, hasApiKey>>

\* The handler without its test of an empty analysis.
Completed_noEmptyCheck(i, r, analysis) ==
    /\ cache' = set(cache, r.body, analysis, now)
    /\ Respond(i, r, 200, FALSE, analysis, "none")

\* The handler storing what analyzeMarket returned before testing it.
Completed_storeFirst(i, r, analysis) ==
    /\ cache' = set(cache, r.body, analysis, now)
    /\ IF analysis = Null
       THEN Respond(i, r, 500, FALSE, Null, "empty")
       ELSE Respond(i, r, 200, FALSE, analysis, "none")

\* analyzeMarket has returned `analysis`: lines 598-621.
Completed(i, r, analysis) ==
    IF analysis = Null
    THEN Respond(i, r, 500, FALSE, Null, "empty") /\ UNCHANGED cache
    ELSE /\ cache' = set(cache, r.body, analysis, now)
         /\ Respond(i, r, 200, FALSE, analysis, "none")

\* Test mode answering with a canned analysis that it does not store.
MockReturn_notStored(i, text) ==
    /\ reqs[i].pc = "call"
    /\ ~hasApiKey
    /\ Respond(i, reqs[i], 200, FALSE, text, "none")
    /\ UNCHANGED <<now, requests, cache, hasApiKey>>

\* Test mode: analyzeMarket returns one of the canned analyses.
MockReturn(i, text) ==
    /\ reqs[i].pc = "call"
    /\ ~hasApiKey
    /\ Completed(i, reqs[i], text)
    /\ UNCHANGED <<now, requests, hasApiKey>>

\* The catch answering with the detail of the error it caught.
Attempt_echoError(i, outcome) ==
    /\ reqs[i].pc = "call"
    /\ hasApiKey
    /\ LET m == makeRequest(reqs[i].retryCount, outcome, TextOf(i))
           r == [reqs[i] EXCEPT !.attempts = @ + 1, !.last = outcome,
                                !.authorization = apiKey,
                                !.timeouts = @ + (IF outcome = "timeout" THEN 1 ELSE 0)]
       IN CASE m.k = "return" -> Completed(i, r, m.value)
            [] m.k = "throw" ->
                  /\ Respond(i, [r EXCEPT !.thrown = m.value],
                             500, FALSE, Null, m.value.detail)
                  /\ UNCHANGED cache
            [] m.k = "retry" ->
                  /\ reqs' = [reqs EXCEPT ![i] =
                                [r EXCEPT !.retryCount = @ + 1, !.slept = @ + m.delay]]
                  /\ UNCHANGED <<cache, metrics>>
    /\ UNCHANGED <<now, requests, hasApiKey>>

\* One fetch of makeRequest ends with `outcome` (after the backoff sleep that
\* preceded it, if it is a retry), and the code runs to its next await.
Attempt(i, outcome) ==
    /\ reqs[i].pc = "call"
    /\ hasApiKey
    /\ LET m == makeRequest(reqs[i].retryCount, outcome, TextOf(i))
           r == [reqs[i] EXCEPT !.attempts = @ + 1, !.last = outcome,
                                !.authorization = apiKey,
                                !.timeouts = @ + (IF outcome = "timeout" THEN 1 ELSE 0)]
       IN CASE m.k = "return" -> Completed(i, r, m.value)
            [] m.k = "throw" ->
                  /\ Respond(i, [r EXCEPT !.thrown = m.value],
                             500, FALSE, Null, "server")
                  /\ UNCHANGED cache
            [] m.k = "retry" ->
                  /\ reqs' = [reqs EXCEPT ![i] =
                                [r EXCEPT !.retryCount = @ + 1, !.slept = @ + m.delay]]
                  /\ UNCHANGED <<cache, metrics>>
    /\ UNCHANGED <<now, requests, hasApiKey>>

\* responseCache.get throws at line 568 (JSON.stringify or the Map raises):
\* nothing between there and the catch of line 684 handles it.
GetThrows(i, b) ==
    /\ reqs[i].pc = "body"
    /\ b.json
    /\ validateAnalysisInput(b) = "ok"
    /\ Respond(i, [reqs[i] EXCEPT !.body = b, !.fault = "get"],
               500, FALSE, Null, "server")
    /\ UNCHANGED <<now, requests, cache, hasApiKey>>

\* The fetch has answered and responseCache.set throws at line 609 (a Map of
\* 2^24 entries raises on the next insertion, and no entry is ever removed
\* but by a lookup of its own key): the catch of line 684 answers.
SetThrows(i) ==
    /\ reqs[i].pc = "call"
    /\ hasApiKey
    /\ makeRequest(reqs[i].retryCount, "ok", TextOf(i)).k = "return"
    /\ Respond(i, [reqs[i] EXCEPT !.attempts = @ + 1, !.last = "ok", !.fault = "set",
                                  !.authorization = apiKey],
               500, FALSE, Null, "server")
    /\ UNCHANGED <<now, requests, cache, hasApiKey>>

\* The upstream sends the response headers and never completes the body
\* (it stops, or goes on sending it piecemeal for ever): clearTimeout has run
\* at line 365, so the timer no longer aborts the await of response.json()
\* at 368 or 380, and makeRequest stays there.
Stall(i) ==
    /\ reqs[i].pc = "call"
    /\ hasApiKey
    /\ reqs' = [reqs EXCEPT ![i] =
                  [@ EXCEPT !.pc = "read", !.attempts = @ + 1, !.last = "stall",
                            !.authorization = apiKey]]
    /\ UNCHANGED <<now, requests, cache, metrics, hasApiKey>>

\* GET /api/stats, lines 530-537.
GetStats(i, c) ==
    /\ reqs[i].pc = "new"
    /\ Respond(i, [reqs[i] EXCEPT !.clientId = c, !.startTime = now,
                                  !.route = "GET /api/stats",
                                  !.reply = getStats(metrics)],
               200, FALSE, Null, "none")
    /\ UNCHANGED <<now, requests, cache, hasApiKey>>

\* GET /api/health, lines 471-480, at the step after the await of
\* getHealthStatus: the OpenAI check reports `openai` (degraded without a
\* key, else what its fetch of /v1/models met) and the heap `memory`.
GetHealth(i, c, openai, memory) ==
    /\ reqs[i].pc = "new"
    /\ LET healthStatus ==
               getHealthStatus(openai, memory, Cardinality(DOMAIN cache), now)
           statusCode == IF healthStatus.status = "healthy" THEN 200
                         ELSE IF healthStatus.status = "degraded" THEN 206
                         ELSE 503
       IN Respond(i, [reqs[i] EXCEPT !.clientId = c, !.startTime = now,
                                     !.route = "GET /api/health",
                                     !.reply = healthStatus],
                  statusCode, FALSE, Null, "none")
    /\ UNCHANGED <<now, requests, cache, hasApiKey>>

\* The readiness probe tolerating one error record less.
GetReady_atLeast(i, c) ==
    /\ reqs[i].pc = "new"
    /\ LET stats == getStats(metrics)
           hasErrors == stats.errors_total >= maxReadyErrors
       IN Respond(i, [reqs[i] EXCEPT !.clientId = c, !.startTime = now,
                                     !.route = "GET /api/health/ready",
                                     !.reply =
                                        [status |-> IF hasErrors THEN "not_ready"
                                                    ELSE "ready",
                                         dependencies |->
                                            [cache |-> "ready", memory |-> "ready",
                                             recent_errors |-> stats.errors_total],
                                         timestamp |-> [t |-> "str", v |-> now]]],
                  IF hasErrors THEN 503 ELSE 200, FALSE, Null, "none")
    /\ UNCHANGED <<now, requests, cache, hasApiKey>>

\* GET /api/health/ready, lines 490-507.
GetReady(i, c) ==
    /\ reqs[i].pc = "new"
    /\ LET stats == getStats(metrics)
           hasErrors == stats.errors_total > maxReadyErrors
       IN Respond(i, [reqs[i] EXCEPT !.clientId = c, !.startTime = now,
                                     !.route = "GET /api/health/ready",
                                     !.reply =
                                        [status |-> IF hasErrors THEN "not_ready"
                                                    ELSE "ready",
                                         dependencies |->
                                            [cache |-> "ready", memory |-> "ready",
                                             recent_errors |-> stats.errors_total],
                                         timestamp |-> [t |-> "str", v |-> now]]],
                  IF hasErrors THEN 503 ELSE 200, FALSE, Null, "none")
    /\ UNCHANGED <<now, requests, cache, hasApiKey>>

\* A request of no known route and method: the fall-through of lines 679-681.
NotFound(i, c) ==
    /\ reqs[i].pc = "new"
    /\ Respond(i, [reqs[i] EXCEPT !.clientId = c, !.startTime = now,
                                  !.route = "other",
                                  !.reply = [error |-> "Not found", path |-> "other"]],
               404, FALSE, Null, "none")
    /\ UNCHANGED <<now, requests, cache, hasApiKey>>

\* The clock advances.
Tick ==
    /\ now < MaxTime
    /\ now' = now + 1
    /\ UNCHANGED <<requests, cache, reqs, metrics, hasApiKey>>

Init ==
    /\ now = 0
    /\ requests = <<>>
    /\ cache = <<>>
    /\ reqs = [i \in Ids |-> NewReq]
    /\ metrics = <<>>
    /\ hasApiKey \in BOOLEAN

\* ------------------------------------------------------------ environment
\* The failed fetches so far.
failed(r) == IF r.last \in {"ok", "empty"} THEN r.attempts - 1 ELSE r.attempts

RECURSIVE faults(_)
faults(n) == IF n = 0 THEN 0 ELSE failed(reqs[n]) + faults(n - 1)

\* Requests are numbered in the order they are received, and the first is c1's.
InOrder(i, c) == IF i = 1 THEN c = "c1" ELSE reqs[i - 1].pc # "new"

\* The upstream fails at most MaxFaults times in a run.
Budget(o) == o \in Failures => faults(NumArrivals) < MaxFaults

\* The whole pipeline, NumReq requests.
Next ==
    \/ \E i \in 1..NumReq, c \in Clients : InOrder(i, c) /\ Arrive(i, c)
    \/ \E i \in 1..NumReq, b \in Bodies : ParseBody(i, b)
    \/ \E i \in 1..NumReq, text \in MockTexts : MockReturn(i, text)
    \/ \E i \in 1..NumReq, o \in Outcomes :
          reqs[i].pc = "call" /\ Budget(o) /\ Attempt(i, o)
    \/ Tick

Spec == Init /\ [][Next]_vars

\* The limiter alone: NumArrivals requests are received, none is parsed yet.
NextLimiter ==
    \/ \E i \in 1..NumArrivals, c \in Clients : InOrder(i, c) /\ Arrive(i, c)
    \/ Tick

SpecLimiter == Init /\ [][NextLimiter]_vars

\* The cache under NumCache overlapping requests with valid bodies, with a
\* key configured and an upstream that answers at the first fetch.
NextCache ==
    \/ \E i \in 1..NumCache, c \in Clients : InOrder(i, c) /\ Arrive(i, c)
    \/ \E i \in 1..NumCache, b \in {ScenarioA, ScenarioA2} : ParseBody(i, b)
    \/ \E i \in 1..NumCache, o \in {"ok", "empty"} : Attempt(i, o)
    \/ Tick

InitCache == Init /\ hasApiKey

SpecCache == InitCache /\ [][NextCache]_vars

\* The client under an upstream that may also leave a body unfinished.  A
\* fetch that is in flight ends: the upstream answers it, or the 30 s timer
\* of line 348 aborts it; that is the fairness of Attempt.  Nothing makes a
\* client send its body or the upstream finish one.
NextLive ==
    \/ \E i \in 1..NumReq, c \in Clients : InOrder(i, c) /\ Arrive(i, c)
    \/ \E i \in 1..NumReq : ParseBody(i, ScenarioA)
    \/ \E i \in 1..NumReq, o \in Outcomes : Budget(o) /\ Attempt(i, o)
    \/ \E i \in 1..NumReq : Stall(i)
    \/ Tick

FairLive ==
    \A i \in 1..NumReq : WF_vars(\E o \in Outcomes : Budget(o) /\ Attempt(i, o))

SpecLive == InitCache /\ [][NextLive]_vars /\ FairLive

\* The cache key under requests whose bodies carry the same five values in
\* different shapes, from either client.
KeyBodies == {ScenarioA, ScenarioA1, ScenarioA2}

NextKey ==
    \/ \E i \in 1..NumReq, c \in Clients : InOrder(i, c) /\ Arrive(i, c)
    \/ \E i \in 1..NumReq, b \in KeyBodies : ParseBody(i, b)
    \/ \E i \in 1..NumReq : Attempt(i, "ok")
    \/ Tick

SpecKey == InitCache /\ [][NextKey]_vars

\* The client under an upstream that times out, fails or answers, with no
\* bound on the failures of a run other than that of makeRequest itself.
NextFail ==
    \/ \E i \in 1..NumReq, c \in Clients : InOrder(i, c) /\ Arrive(i, c)
    \/ \E i \in 1..NumReq : ParseBody(i, ScenarioA)
    \/ \E i \in 1..NumReq, o \in {"ok", "timeout", "s5xx", "neterr"} : Attempt(i, o)
    \/ Tick

SpecFail == InitCache /\ [][NextFail]_vars

\* The pipeline with a cache whose operations may throw.
NextFault ==
    \/ \E i \in 1..NumReq, c \in Clients : InOrder(i, c) /\ Arrive(i, c)
    \/ \E i \in 1..NumReq, b \in {ScenarioA, ScenarioA2} : ParseBody(i, b)
    \/ \E i \in 1..NumReq, b \in {ScenarioA, ScenarioA2} : GetThrows(i, b)
    \/ \E i \in 1..NumReq : Attempt(i, "ok")
    \/ \E i \in 1..NumReq : SetThrows(i)
    \/ Tick

SpecFault == InitCache /\ [][NextFault]_vars

\* The analysis endpoint next to the stats and health endpoints, under an
\* upstream that answers at the first fetch.
NextGet ==
    \/ \E i \in 1..NumReq, c \in Clients : InOrder(i, c) /\ Arrive(i, c)
    \/ \E i \in 1..NumReq, b \in {ScenarioA, ScenarioA2} : ParseBody(i, b)
    \/ \E i \in 1..NumReq, text \in MockTexts : MockReturn(i, text)
    \/ \E i \in 1..NumReq : Attempt(i, "ok")
    \/ \E i \in 1..NumReq, c \in Clients : InOrder(i, c) /\ GetStats(i, c)
    \/ \E i \in 1..NumReq, c \in Clients, o \in OpenAIStatuses, m \in MemoryStatuses :
          InOrder(i, c) /\ GetHealth(i, c, o, m)
    \/ Tick

SpecGet == Init /\ [][NextGet]_vars

\* The readiness probe among requests that are answered 404 and requests
\* for the statistics.
NextReady ==
    \/ \E i \in 1..NumArrivals, c \in Clients : InOrder(i, c) /\ NotFound(i, c)
    \/ \E i \in 1..NumArrivals, c \in Clients : InOrder(i, c) /\ GetStats(i, c)
    \/ \E i \in 1..NumArrivals, c \in Clients : InOrder(i, c) /\ GetReady(i, c)

SpecReady == Init /\ [][NextReady]_vars

\* Validation alone: one request, its five fields drawn from values at and
\* around the bounds and from the JSON values that are no numbers.
FedRates ==
    {Num(0 - 6), Num(0 - 5), Num(20), Num(21), Undef, JNull, Bool(TRUE), Str(3), Text}
ExchangeRates == {Num(499), Num(500), Num(2500), Num(2501), Undef, JNull}
StockValues == {Num(0 - 1), Num(0), JNull, Text}
GoldValues == {Num(0 - 1), Num(0)}
BondValues == {Num(0 - 1), Num(0), Undef}

FieldBodies ==
    {Body(f, e, s, g, b) : f \in FedRates, e \in ExchangeRates, s \in StockValues,
                          g \in GoldValues, b \in BondValues}

NextValidate ==
    \/ \E c \in Clients : InOrder(1, c) /\ Arrive(1, c)
    \/ \E b \in FieldBodies : ParseBody(1, b)

SpecValidate == Init /\ [][NextValidate]_vars

\* ------------------------------------------------------------------ claims
\* The timestamps the limiter holds for client c inside the trailing minute
\* and inside the trailing hour, at time t.
InMinute(c, t) ==
    Cardinality({k \in DOMAIN requests :
                    requests[k].clientId = c /\ requests[k].time > t - MinuteTicks})

InHour(c, t) ==
    Cardinality({k \in DOMAIN requests :
                    requests[k].clientId = c /\ requests[k].time > t - HourTicks})

\* Request i is received in this step.
Received(i) == reqs[i].pc = "new" /\ reqs'[i].pc # "new"

\* C1: a request of a client that already has maxPerMinute timestamps inside
\* the trailing minute is denied with 429; a request of a client with fewer
\* than maxPerMinute inside the minute (the oldest has left the window) and
\* fewer than maxPerHour inside the hour is admitted.
C1_MinuteWindow ==
    [][\A i \in Ids :
          Received(i) =>
             LET c == reqs'[i].clientId IN
             /\ InMinute(c, now) >= maxPerMinute =>
                   /\ ~reqs'[i].allowed
                   /\ reqs'[i].pc = "done"
                   /\ reqs'[i].statusCode = 429
             /\ (InMinute(c, now) < maxPerMinute /\ InHour(c, now) < maxPerHour) =>
                   /\ reqs'[i].allowed
                   /\ reqs'[i].pc = "body"]_vars

\* A client was admitted, then denied inside the same minute, then admitted
\* again once the minute had passed.
C1_Witness ==
    \E i, j, k \in Ids :
       /\ i < j /\ j < k
       /\ reqs[i].clientId = reqs[j].clientId /\ reqs[j].clientId = reqs[k].clientId
       /\ reqs[i].allowed /\ reqs[j].statusCode = 429 /\ reqs[k].allowed
       /\ reqs[j].startTime - reqs[i].startTime < MinuteTicks
       /\ reqs[k].startTime - reqs[i].startTime >= MinuteTicks

\* C2: for every client the limiter never holds more than maxPerMinute
\* timestamps inside the trailing minute nor more than maxPerHour inside the
\* trailing hour.
C2_WindowCounts ==
    \A c \in Clients :
       /\ InMinute(c, now) <= maxPerMinute
       /\ InHour(c, now) <= maxPerHour

\* A check has just returned allowed and filled both windows of the client.
C2_Witness ==
    \E c \in Clients, i \in Ids :
       /\ reqs[i].allowed /\ reqs[i].clientId = c /\ reqs[i].startTime = now
       /\ InMinute(c, now) = maxPerMinute
       /\ InHour(c, now) = maxPerHour

\* The requests of client c that were admitted before request i was received
\* (requests are numbered in the order they are received) and whose time of
\* receipt is less than w ticks before that of request i.
AdmittedBefore(i, c, w) ==
    Cardinality({j \in 1..(i - 1) :
                    /\ reqs[j].allowed
                    /\ reqs[j].clientId = c
                    /\ reqs[j].startTime > reqs[i].startTime - w})

\* C3: whatever the interleaving of the handlers, a request is admitted
\* exactly when the requests of its client admitted before it leave a slot in
\* both windows: of the requests competing for the last slot exactly one gets
\* it.
C3_AtomicAdmission ==
    \A i \in Ids :
       reqs[i].pc # "new" =>
          (reqs[i].allowed <=>
              /\ AdmittedBefore(i, reqs[i].clientId, MinuteTicks) < maxPerMinute
              /\ AdmittedBefore(i, reqs[i].clientId, HourTicks) < maxPerHour)

\* Two requests of one client were received in the same tick with one slot
\* left; the first is still in flight and the second was denied.
C3_Witness ==
    \E i, j \in Ids :
       /\ i < j
       /\ reqs[i].clientId = reqs[j].clientId
       /\ reqs[i].startTime = reqs[j].startTime
       /\ reqs[i].allowed /\ reqs[i].pc \in {"body", "call"}
       /\ AdmittedBefore(i, reqs[i].clientId, MinuteTicks) = maxPerMinute - 1
       /\ reqs[j].pc = "done" /\ reqs[j].statusCode = 429

\* The timestamps the limiter holds for client c at time t.
Slots(c, t) ==
    Cardinality({k \in DOMAIN requests :
                    requests[k].clientId = c /\ requests[k].time = t})

\* The admitted requests of client c received at time t.
Admitted(c, t) ==
    Cardinality({j \in Ids :
                    reqs[j].allowed /\ reqs[j].clientId = c /\ reqs[j].startTime = t})

ValidBodies == {ScenarioA, ScenarioA2}

\* The cache holds an entry for input b that is at most the TTL old at time t.
Live(b, t) ==
    /\ getKey(b) \in DOMAIN cache
    /\ t - cache[getKey(b)].timestamp <= ttlSeconds

\* Request i reaches the cache lookup in this step (its body was parsed and
\* passed validation).
LooksUp(i) ==
    /\ reqs[i].pc = "body"
    /\ reqs'[i].pc = "call" \/ (reqs'[i].pc = "done" /\ reqs'[i].statusCode = 200)

\* Request i is answered in this step with a fresh (not cached) analysis.
AnswersFresh(i) ==
    /\ reqs[i].pc = "call"
    /\ reqs'[i].pc = "done" /\ reqs'[i].statusCode = 200

\* C5: the client is invoked, and the upstream fetched, only for a request
\* that was admitted, whose body is valid and whose lookup missed; a fresh
\* analysis is in the cache, under the key of the request and stamped with the
\* current time, when the response is sent.
C5_UpstreamLast ==
    [][\A i \in Ids :
          /\ (reqs'[i].invocations > reqs[i].invocations
                 \/ reqs'[i].attempts > reqs[i].attempts) =>
                /\ reqs'[i].allowed
                /\ reqs'[i].body \in ValidBodies
                /\ reqs'[i].invocations = 1
          /\ reqs'[i].invocations > reqs[i].invocations =>
                (LooksUp(i) /\ ~Live(reqs'[i].body, now))
          /\ reqs'[i].attempts > reqs[i].attempts => reqs[i].pc = "call"
          /\ (reqs'[i].pc = "done" /\ reqs[i].pc # "done"
                 /\ reqs'[i].statusCode = 200 /\ ~reqs'[i].cached) =>
                /\ reqs[i].pc = "call"
                /\ getKey(reqs'[i].body) \in DOMAIN cache'
                /\ cache'[getKey(reqs'[i].body)]
                      = [data |-> reqs'[i].analysis, timestamp |-> now]]_vars

\* A request went upstream after a miss and its analysis is in the cache.
C5_Witness ==
    \E i \in Ids :
       /\ reqs[i].pc = "done" /\ reqs[i].statusCode = 200 /\ ~reqs[i].cached
       /\ reqs[i].attempts >= 1
       /\ getKey(reqs[i].body) \in DOMAIN cache
       /\ cache[getKey(reqs[i].body)].data = reqs[i].analysis

\* Request i was answered 200 with a fresh analysis (cached = false).
Fresh(i) ==
    reqs[i].pc = "done" /\ reqs[i].statusCode = 200 /\ ~reqs[i].cached

\* Request j has the key of request i, was received after i was answered,
\* and has looked the key up no later than the TTL after the answer to i.
\* (A request in "call" has made its lookup by now; a request that is done
\* made it by its endTime.)
Second(i, j) ==
    /\ i # j
    /\ reqs[j].pc \in {"call", "done"}
    /\ reqs[j].body \in ValidBodies
    /\ getKey(reqs[j].body) = getKey(reqs[i].body)
    /\ reqs[j].startTime > reqs[i].endTime
    /\ (IF reqs[j].pc = "done" THEN reqs[j].endTime ELSE now)
          <= reqs[i].endTime + ttlSeconds

\* C6 as claimed, for a first request that was answered cached = false: the
\* second is answered from the cache, without any upstream call, with the
\* analysis that the first was answered with.
C6_SameAnalysis ==
    \A i, j \in Ids :
       (Fresh(i) /\ Second(i, j)) =>
          /\ reqs[j].pc = "done" /\ reqs[j].statusCode = 200 /\ reqs[j].cached
          /\ reqs[j].invocations = 0 /\ reqs[j].attempts = 0
          /\ reqs[j].analysis = reqs[i].analysis

\* C6 as amended: the second is answered from the cache, without any
\* upstream call, with the analysis stored last for the key: that of the first
\* request, or that of another request with the same key that was answered
\* fresh after the first and before the second.
C6_LatestAnalysis ==
    \A i, j \in Ids :
       (Fresh(i) /\ Second(i, j)) =>
          /\ reqs[j].pc = "done" /\ reqs[j].statusCode = 200 /\ reqs[j].cached
          /\ reqs[j].invocations = 0 /\ reqs[j].attempts = 0
          /\ \E k \in Ids :
                /\ Fresh(k)
                /\ getKey(reqs[k].body) = getKey(reqs[i].body)
                /\ reqs[k].endTime >= reqs[i].endTime
                /\ reqs[k].endTime <= reqs[j].endTime
                /\ reqs[j].analysis = reqs[k].analysis

\* Scenario A twice: the first was answered fresh, the second, received a tick
\* later, from the cache with the same analysis.
C6_Witness ==
    \E i, j \in Ids :
       /\ Fresh(i) /\ Second(i, j)
       /\ reqs[i].body = ScenarioA
       /\ reqs[j].pc = "done" /\ reqs[j].cached
       /\ reqs[j].analysis = reqs[i].analysis

\* The cache holds an entry for input b that is older than the TTL at time t.
Expired(b, t) ==
    /\ getKey(b) \in DOMAIN cache
    /\ t - cache[getKey(b)].timestamp > ttlSeconds

\* C7: a lookup answers from the cache only with an entry that is at most the
\* TTL old, and then with its stored value, leaving the map as it is; an entry
\* older than the TTL is a miss and is removed from the map (and nothing else
\* is); no entry is a miss that leaves the map as it is.
C7_GetHonoursTtl ==
    [][\A i \in Ids :
          LooksUp(i) =>
             LET b == reqs'[i].body
                 key == getKey(b)
             IN /\ Live(b, now) =>
                      /\ reqs'[i].pc = "done" /\ reqs'[i].cached
                      /\ reqs'[i].analysis = cache[key].data
                      /\ cache' = cache
                /\ Expired(b, now) =>
                      /\ reqs'[i].pc = "call" /\ ~reqs'[i].cached
                      /\ DOMAIN cache' = DOMAIN cache \ {key}
                      /\ \A k \in DOMAIN cache' : cache'[k] = cache[k]
                /\ key \notin DOMAIN cache =>
                      /\ reqs'[i].pc = "call" /\ ~reqs'[i].cached
                      /\ cache' = cache]_vars

\* A lookup has met the entry that an earlier request stored more than the TTL
\* ago: the request is on its way upstream and the entry is gone.
C7_Witness ==
    \E i, j \in Ids :
       /\ Fresh(j)
       /\ reqs[i].pc = "call"
       /\ getKey(reqs[i].body) = getKey(reqs[j].body)
       /\ now - reqs[j].endTime > ttlSeconds
       /\ getKey(reqs[i].body) \notin DOMAIN cache

\* C8: a lookup that meets an entry older than the TTL makes the handler call
\* the client once (analyzeMarket: one invocation, whatever the number of
\* fetches its retries make); no request ever makes a second invocation; and
\* the analysis of a successful invocation replaces the entry of its key.
C8_ExpiredRefetch ==
    [][\A i \in Ids :
          /\ (LooksUp(i) /\ Expired(reqs'[i].body, now)) =>
                /\ reqs'[i].pc = "call"
                /\ reqs[i].invocations = 0 /\ reqs'[i].invocations = 1
          /\ reqs'[i].invocations <= 1
          /\ reqs'[i].invocations >= reqs[i].invocations
          /\ reqs'[i].pc = "call" => reqs'[i].invocations = 1
          /\ AnswersFresh(i) =>
                /\ reqs'[i].invocations = 1
                /\ getKey(reqs'[i].body) \in DOMAIN cache'
                /\ cache'[getKey(reqs'[i].body)].data = reqs'[i].analysis
                /\ cache'[getKey(reqs'[i].body)].timestamp = now]_vars

\* The entry of a key was stored, expired, and was replaced by the analysis
\* of the next request for the key.
C8_Witness ==
    \E i, j \in Ids :
       /\ Fresh(i) /\ Fresh(j)
       /\ getKey(reqs[i].body) = getKey(reqs[j].body)
       /\ reqs[j].startTime - reqs[i].endTime > ttlSeconds
       /\ reqs[j].invocations = 1
       /\ getKey(reqs[j].body) \in DOMAIN cache
       /\ cache[getKey(reqs[j].body)]
             = [data |-> reqs[j].analysis, timestamp |-> reqs[j].endTime]
       /\ reqs[j].analysis # reqs[i].analysis

\* C9: an invocation all of whose fetches timed out ends in an error after
\* exactly maxRetries + 1 fetches.
C9_FourAttempts ==
    \A i \in Ids :
       (reqs[i].pc = "done" /\ reqs[i].attempts > 0
           /\ reqs[i].timeouts = reqs[i].attempts) =>
          /\ reqs[i].statusCode = 500
          /\ reqs[i].attempts = maxRetries + 1

\* C10: a fetch answered with a client-side error status other than 429 ends
\* the invocation: the request is answered with an error, and no backoff was
\* slept and no retry was scheduled for it.
C10_ClientErrorTerminal ==
    \A i \in Ids :
       reqs[i].last = "s4xx" =>
          /\ reqs[i].pc = "done"
          /\ reqs[i].statusCode = 500
          /\ reqs[i].attempts = 1
          /\ reqs[i].slept = 0

\* Request i makes a fetch in this step: its outcome is reqs'[i].last.
Fetches(i) == reqs'[i].attempts = reqs[i].attempts + 1

\* 1000 * 2^0 + ... + 1000 * 2^(k-1)
RECURSIVE BackoffSum(_)
BackoffSum(k) == IF k = 0 THEN 0 ELSE BackoffSum(k - 1) + 1000 * 2^(k - 1)

\* C11: a fetch answered 429 or 5xx after fewer than maxRetries earlier
\* fetches is retried after a sleep of 1000 * 2^n ms, n the number of earlier
\* fetches; and a fetch that succeeds after k failed ones answers the request
\* with 200 and a fresh analysis after exactly k + 1 fetches, the delay slept
\* being at least the sum of the first k backoff steps.
C11_RetryThenSuccess ==
    [][\A i \in Ids :
          /\ (Fetches(i) /\ reqs'[i].last \in {"s429", "s5xx"}
                 /\ reqs[i].attempts < maxRetries) =>
                /\ reqs'[i].pc = "call"
                /\ reqs'[i].slept = reqs[i].slept + 1000 * 2^(reqs[i].attempts)
          /\ (Fetches(i) /\ reqs'[i].last = "ok") =>
                /\ reqs'[i].pc = "done" /\ reqs'[i].statusCode = 200
                /\ ~reqs'[i].cached /\ reqs'[i].analysis # Null
                /\ failed(reqs'[i]) = reqs[i].attempts
                /\ reqs'[i].attempts = reqs[i].attempts + 1
                /\ reqs'[i].slept >= BackoffSum(reqs[i].attempts)]_vars

\* A request was answered with success at its third fetch, after two failed
\* fetches and 1000 + 2000 ms of backoff.
C11_Witness ==
    \E i \in Ids :
       /\ reqs[i].pc = "done" /\ reqs[i].statusCode = 200 /\ reqs[i].last = "ok"
       /\ reqs[i].attempts = 3
       /\ reqs[i].slept = 3000

\* C12: whatever the upstream does, an invocation makes at most
\* maxRetries + 1 fetches; the retry counter moves only by one, only together
\* with a failed fetch; and the fetch made at counter value n is the
\* (n + 1)-th, so that no two fetches are made at the same counter value.
C12_BoundedAttempts ==
    [][\A i \in Ids :
          /\ reqs'[i].attempts <= maxRetries + 1
          /\ reqs'[i].retryCount <= maxRetries
          /\ reqs'[i].retryCount # reqs[i].retryCount =>
                /\ reqs'[i].retryCount = reqs[i].retryCount + 1
                /\ Fetches(i)
                /\ reqs'[i].last \in Failures
          /\ reqs'[i].attempts # reqs[i].attempts =>
                /\ Fetches(i)
                /\ reqs[i].attempts = reqs[i].retryCount
                /\ reqs[i].pc = "call"]_vars

\* An invocation has used up its retries: four fetches, all failed.
C12_Witness ==
    \E i \in Ids :
       /\ reqs[i].pc = "done" /\ reqs[i].statusCode = 500
       /\ reqs[i].attempts = maxRetries + 1
       /\ reqs[i].retryCount = maxRetries
       /\ reqs[i].last \in Failures

\* C13: every invocation of the client resolves: a request that is waiting
\* for analyzeMarket is eventually answered.
C13_EveryCallResolves ==
    \A i \in Ids : (reqs[i].pc = "call") ~> (reqs[i].pc = "done")

\* C14: a fetch answered 200 without message content ends the request with
\* an error response and leaves the cache as it is; no request is answered
\* 200 with an empty analysis, and the cache never holds an empty analysis.
C14_EmptyIsFailure ==
    [][\A i \in Ids :
          /\ (Fetches(i) /\ reqs'[i].last = "empty") =>
                /\ reqs'[i].pc = "done"
                /\ reqs'[i].statusCode = 500
                /\ reqs'[i].analysis = Null
                /\ cache' = cache
          /\ reqs'[i].statusCode = 200 => reqs'[i].analysis # Null
          /\ \A k \in DOMAIN cache' : cache'[k].data # Null]_vars

\* A request whose upstream answer had no content was answered 500, and the
\* cache has no entry for its key.
C14_Witness ==
    \E i \in Ids :
       /\ reqs[i].pc = "done" /\ reqs[i].last = "empty"
       /\ reqs[i].statusCode = 500 /\ reqs[i].error = "empty"
       /\ getKey(reqs[i].body) \notin DOMAIN cache

\* Request i has had its body parsed and validated, and has looked its key up.
LookedUp(i) ==
    /\ reqs[i].pc \in {"call", "read", "done"}
    /\ reqs[i].body.json
    /\ validateAnalysisInput(reqs[i].body) = "ok"

\* The buckets of an input as C15 describes them: the exchange rate rounded
\* to the nearest ten units; the other fields are whole numbers here, which
\* rounding to a quarter unit or to a unit leaves as they are.
Bucket(b) ==
    <<b.fedRate.v, ((b.exchangeRate.v + 5) \div 10) * 10, b.stockKrw.v,
      b.goldKrw.v, b.bond.v>>

\* C15: two requests whose inputs fall in the same buckets are looked up
\* under the same cache key.
C15_BucketedKey ==
    \A i, j \in Ids :
       (LookedUp(i) /\ LookedUp(j)
           /\ Bucket(reqs[i].body) = Bucket(reqs[j].body)) =>
          getKey(reqs[i].body) = getKey(reqs[j].body)

\* The five field values of a body.
Fields(b) == <<b.fedRate, b.exchangeRate, b.stockKrw, b.goldKrw, b.bond>>

\* Request j was received after request i was answered, and has looked its
\* key up no later than the TTL after that answer.
Follows(i, j) ==
    /\ i # j
    /\ LookedUp(j)
    /\ reqs[j].startTime > reqs[i].endTime
    /\ (IF reqs[j].pc = "done" THEN reqs[j].endTime ELSE now)
          <= reqs[i].endTime + ttlSeconds

\* C16: two requests with the same five field values are looked up under the
\* same key, whoever sent them, whenever, in whatever order the body lists
\* the fields and whatever else it holds; so the second of them, looked up
\* while the analysis of the first is cached, is answered from the cache.
C16_KeyOfFieldsAlone ==
    \A i, j \in Ids :
       (LookedUp(i) /\ LookedUp(j)
           /\ Fields(reqs[i].body) = Fields(reqs[j].body)) =>
          /\ getKey(reqs[i].body) = getKey(reqs[j].body)
          /\ (Fresh(i) /\ Follows(i, j)) =>
                reqs[j].pc = "done" /\ reqs[j].cached

\* Scenario A from c1, then, a tick later, from c2 with the fields in another
\* order and an extra field: the second is answered from the cache.
C16_Witness ==
    \E i, j \in Ids :
       /\ Fresh(i) /\ Follows(i, j)
       /\ reqs[i].body = ScenarioA /\ reqs[j].body = ScenarioA1
       /\ reqs[i].clientId # reqs[j].clientId
       /\ reqs[j].pc = "done" /\ reqs[j].cached
       /\ reqs[j].analysis = reqs[i].analysis

\* C17: the answer to a request that the limiter denied carries retryAfter
\* and the window that was exceeded.
C17_DenialCarriesRetryAfter ==
    \A i \in Ids :
       (reqs[i].pc = "done" /\ reqs[i].statusCode = 429) =>
          {"retryAfter", "scope"} \subseteq DOMAIN payload(i)

\* Request i was answered with an error after its last fetch failed with one
\* of `outcomes`.
FailedWith(i, outcomes) ==
    /\ reqs[i].pc = "done" /\ reqs[i].statusCode >= 500
    /\ reqs[i].attempts > 0
    /\ reqs[i].last \in outcomes

\* What the answer to request i says apart from the id of the request.
Classification(i) ==
    [status |-> reqs[i].statusCode,
     body |-> [k \in DOMAIN payload(i) \ {"requestId"} |-> payload(i)[k]]]

\* C18: the answer to a request that failed on an upstream timeout differs,
\* in its status or in its payload, from the answer to a request that failed
\* on upstream errors.
C18_ClassifiedFailure ==
    \A i, j \in Ids :
       (FailedWith(i, {"timeout"}) /\ FailedWith(j, Failures \ {"timeout"})) =>
          Classification(i) # Classification(j)

\* Field value x is a number that is at least lo; that is within [lo, hi].
AtLeast(x, lo) == x.t = "num" /\ x.v >= lo
Within(x, lo, hi) == AtLeast(x, lo) /\ x.v <= hi

\* The fields of body b that are absent, no finite number or out of bounds.
ViolatedFields(b) ==
    {f \in {"fedRate", "exchangeRate", "stockKrw", "goldKrw", "bond"} :
        ~ CASE f = "fedRate" -> Within(b.fedRate, 0 - 5, 20)
            [] f = "exchangeRate" -> Within(b.exchangeRate, 500, 2500)
            [] f = "stockKrw" -> AtLeast(b.stockKrw, 0)
            [] f = "goldKrw" -> AtLeast(b.goldKrw, 0)
            [] f = "bond" -> AtLeast(b.bond, 0)}

\* Request i was admitted and its body parsed.
Parsed(i) ==
    reqs[i].pc \in {"call", "read", "done"} /\ reqs[i].allowed /\ reqs[i].body.json

\* C19: an admitted request is answered 400 with an error message exactly
\* when one of its five fields is absent, no finite number or out of bounds.
C19_RejectedIffInvalid ==
    \A i \in Ids :
       Parsed(i) =>
          ((reqs[i].pc = "done" /\ reqs[i].statusCode = 400
               /\ "error" \in DOMAIN payload(i))
             <=> ViolatedFields(reqs[i].body) # {})

\* The fields that an error message of validateAnalysisInput speaks of: the
\* message about numbers names none, the one about asset values is taken to
\* cover the three asset fields.
NamedFields(error) ==
    CASE error = "fedRate" -> {"fedRate"}
      [] error = "exchangeRate" -> {"exchangeRate"}
      [] error = "assets" -> {"stockKrw", "goldKrw", "bond"}
      [] OTHER -> {}

\* C20: the error of a request that failed validation names every field
\* whose constraint is violated.
C20_AllViolationsListed ==
    \A i \in Ids :
       (Parsed(i) /\ reqs[i].pc = "done" /\ reqs[i].statusCode = 400) =>
          ViolatedFields(reqs[i].body) \subseteq NamedFields(reqs[i].error)

\* The requests of client c received within the minute before t that were
\* answered from the cache.
CacheHits(c, t) ==
    Cardinality({j \in Ids :
                    /\ reqs[j].pc = "done" /\ reqs[j].cached
                    /\ reqs[j].clientId = c
                    /\ reqs[j].startTime > t - MinuteTicks})

\* C21: a request that was answered from the cache was admitted and holds a
\* slot of its client (the limiter holds one timestamp per admitted request of
\* that client and time, as long as the time is inside the hour); and a
\* request of a client that has had maxPerMinute requests answered from the
\* cache within the minute is denied.
C21_HitsConsumeQuota ==
    [][\A i \in Ids :
          /\ (reqs'[i].pc = "done" /\ reqs'[i].cached) =>
                /\ reqs'[i].allowed
                /\ reqs'[i].startTime > now' - HourTicks =>
                      Cardinality({k \in DOMAIN requests' :
                                      /\ requests'[k].clientId = reqs'[i].clientId
                                      /\ requests'[k].time = reqs'[i].startTime})
                         = Cardinality({j \in Ids :
                                           /\ reqs'[j].allowed
                                           /\ reqs'[j].clientId = reqs'[i].clientId
                                           /\ reqs'[j].startTime = reqs'[i].startTime})
          /\ (reqs[i].pc = "new" /\ reqs'[i].pc # "new"
                 /\ CacheHits(reqs'[i].clientId, now) >= maxPerMinute) =>
                (reqs'[i].pc = "done" /\ reqs'[i].statusCode = 429)]_vars

\* A client's request was answered from the cache, and its next request in
\* the same minute was denied.
C21_Witness ==
    \E i, j \in Ids :
       /\ reqs[i].pc = "done" /\ reqs[i].statusCode = 200 /\ reqs[i].cached
       /\ j > i
       /\ reqs[j].clientId = reqs[i].clientId
       /\ reqs[j].startTime - reqs[i].startTime < MinuteTicks
       /\ reqs[j].pc = "done" /\ reqs[j].statusCode = 429
       /\ CacheHits(reqs[i].clientId, reqs[j].startTime) = maxPerMinute

\* C22: a request during which a cache operation threw is answered as after
\* a miss: with status 200, cached=false and the analysis of its own upstream
\* call.
C22_FaultIsForcedMiss ==
    \A i \in Ids :
       (reqs[i].pc = "done" /\ reqs[i].fault # "none") =>
          /\ reqs[i].statusCode = 200
          /\ ~reqs[i].cached
          /\ reqs[i].invocations = 1
          /\ reqs[i].analysis = TextOf(i)

\* The payload sent to request i without its request id.
Visible(i) == [k \in DOMAIN payload(i) \ {"requestId"} |-> payload(i)[k]]

Retried == Failures \ {"timeout"}

\* The jitter in a delay slept before retry n.
Jitter(d, n) == d - 1000 * 2^n

\* C24: the delay slept before retry n (n = 0 for the first) is 1000 * 2^n
\* plus a jitter of at least 0 and less than 1000 ms, after a 429 and after
\* any other retried failure alike, and it is greater than the delay slept
\* before the retry that preceded it (which is at most what has been slept
\* so far less the backoff steps before that one).
C24_BackoffWithJitter ==
    [][\A i \in Ids :
          reqs'[i].retryCount # reqs[i].retryCount =>
             LET n == reqs[i].retryCount
                 d == reqs'[i].slept - reqs[i].slept
             IN /\ reqs'[i].retryCount = n + 1
                /\ reqs'[i].last \in Retried
                /\ Jitter(d, n) >= 0 /\ Jitter(d, n) < 1000
                /\ \A o \in Retried : makeRequest(n, o, TextOf(i)).delay = d
                /\ n > 0 =>
                      \A o \in Retried : d > makeRequest(n - 1, o, TextOf(i)).delay
                /\ n > 0 => d > reqs[i].slept - BackoffSum(n - 1)]_vars

\* One invocation has slept before its third retry after 429 responses, and
\* another before its second retry after a failure of another kind.
C24_Witness ==
    \E i, j \in Ids :
       /\ reqs[i].retryCount = 3 /\ reqs[i].last = "s429" /\ reqs[i].slept = 7000
       /\ reqs[j].retryCount = 1 /\ reqs[j].last \in Retried \ {"s429"}
       /\ reqs[j].slept = 1000

\* C25: an invocation that gave up after retryable failures has waited
\* 1 s, 2 s, 4 s and 8 s between its fetches.
C25_FourWaits ==
    \A i \in Ids :
       (reqs[i].pc = "done" /\ reqs[i].last \in Retried /\ reqs[i].thrown # NoError) =>
          /\ reqs[i].retryCount = 4
          /\ reqs[i].slept = 1000 + 2000 + 4000 + 8000

\* C26: the step that handles a body that is no valid JSON answers the
\* request with a status of 400 or more, without an upstream call and
\* without touching the cache or any other request; and a request that
\* has been so answered is never called upstream.
C26_MalformedBody ==
    [][\A i \in Ids :
          /\ (reqs[i].pc = "body" /\ reqs'[i].pc # "body" /\ ~reqs'[i].body.json) =>
                /\ reqs'[i].pc = "done"
                /\ reqs'[i].statusCode >= 400
                /\ reqs'[i].invocations = 0 /\ reqs'[i].attempts = 0
                /\ cache' = cache
                /\ \A j \in Ids \ {i} : reqs'[j] = reqs[j]
          /\ (reqs[i].pc = "done" /\ ~reqs[i].body.json) => reqs'[i] = reqs[i]]_vars

\* A request with a malformed body was answered with an error, and a request
\* received after that was answered with a fresh analysis.
C26_Witness ==
    \E i, j \in Ids :
       /\ reqs[i].pc = "done" /\ reqs[i].body = Malformed
       /\ reqs[i].statusCode = 500 /\ reqs[i].invocations = 0
       /\ j > i /\ reqs[j].startTime >= reqs[i].endTime
       /\ reqs[j].pc = "done" /\ reqs[j].statusCode = 200 /\ ~reqs[j].cached
       /\ getKey(reqs[j].body) \in DOMAIN cache

\* C27: GET /api/stats is answered with 200 and a payload that has a
\* cacheSize, a number of cache entries.
C27_StatsCacheSize ==
    \A i \in Ids :
       (reqs[i].pc = "done" /\ reqs[i].route = "GET /api/stats") =>
          /\ reqs[i].statusCode = 200
          /\ "cacheSize" \in DOMAIN payload(i)
          /\ payload(i)["cacheSize"] \in 0..NumArrivals

\* C28: GET /api/health is answered with 200 and a payload with ok = true, a
\* timestamp and a numeric uptime, whatever the OpenAI check, the memory and
\* the cache report.
C28_HealthAlwaysOk ==
    \A i \in Ids :
       (reqs[i].pc = "done" /\ reqs[i].route = "GET /api/health") =>
          /\ reqs[i].statusCode = 200
          /\ {"ok", "timestamp", "uptime"} \subseteq DOMAIN payload(i)
          /\ payload(i)["ok"] = TRUE
          /\ payload(i)["uptime"].t = "num"

\* C29: a lookup that finds no live entry starts an upstream invocation of its
\* own, also while another request of the same key is in flight, and the
\* invocation count of a request moves at no other step (so the invocations
\* are as many as the lookups that missed); a request answered after its
\* upstream call is answered with cached=false, and its analysis and the time
\* of the store replace whatever entry the key had.
C29_NoCoalescing ==
    [][\A i \in Ids :
          /\ (LooksUp(i) /\ ~Live(reqs'[i].body, now)) =>
                /\ reqs'[i].pc = "call"
                /\ reqs'[i].invocations = reqs[i].invocations + 1
          /\ reqs'[i].invocations # reqs[i].invocations =>
                (LooksUp(i) /\ ~Live(reqs'[i].body, now))
          /\ AnswersFresh(i) =>
                /\ ~reqs'[i].cached
                /\ reqs'[i].invocations = 1
                /\ cache'[getKey(reqs[i].body)] =
                      [data |-> reqs'[i].analysis, timestamp |-> now]]_vars

\* Two requests of one key were answered fresh at the same time (so each had
\* looked the key up before the other stored), with different analyses, each
\* after one invocation; the cache holds the analysis of one of them.
C29_Witness ==
    \E i, j \in Ids :
       /\ i # j
       /\ Fresh(i) /\ Fresh(j)
       /\ getKey(reqs[i].body) = getKey(reqs[j].body)
       /\ reqs[i].endTime = reqs[j].endTime
       /\ reqs[i].invocations = 1 /\ reqs[j].invocations = 1
       /\ reqs[i].analysis # reqs[j].analysis
       /\ getKey(reqs[i].body) \in DOMAIN cache
       /\ cache[getKey(reqs[i].body)] =
             [data |-> reqs[j].analysis, timestamp |-> reqs[j].endTime]

\* Request i has been answered with a failure.
Failed(i) == reqs[i].pc = "done" /\ reqs[i].statusCode # 200

\* C30: when the requests received so far are one that was answered with a
\* fresh analysis and others that ended in failure, the cache is as the
\* successful request left it: it holds that request's analysis, stamped with
\* the time of its store.
C30_FailureLeavesCache ==
    \A j \in Ids :
       (Fresh(j) /\ \A i \in Ids \ {j} : reqs[i].pc = "new" \/ Failed(i)) =>
          /\ DOMAIN cache = {getKey(reqs[j].body)}
          /\ cache[getKey(reqs[j].body)] =
                [data |-> reqs[j].analysis, timestamp |-> reqs[j].endTime]

\* C30, amended: the step that answers a request with a failure leaves the
\* cache as it is; an entry appears or changes only in a step that answers a
\* request with a fresh analysis, and is then that request's analysis under
\* its key, stamped now; and an entry disappears only in the lookup step of a
\* request of that key, when it is older than the TTL.
C30_OnlySuccessStores ==
    [][/\ \A i \in Ids :
             (reqs[i].pc # "done" /\ reqs'[i].pc = "done"
                 /\ reqs'[i].statusCode # 200) => cache' = cache
       /\ \A key \in DOMAIN cache' :
             (key \notin DOMAIN cache \/ cache'[key] # cache[key]) =>
                \E i \in Ids :
                   /\ AnswersFresh(i)
                   /\ getKey(reqs[i].body) = key
                   /\ cache'[key] = [data |-> reqs'[i].analysis, timestamp |-> now]
       /\ \A key \in DOMAIN cache \ DOMAIN cache' :
             \E i \in Ids :
                /\ LooksUp(i)
                /\ getKey(reqs'[i].body) = key
                /\ Expired(reqs'[i].body, now)]_vars

\* A request found the expired entry of an earlier request, which its lookup
\* removed, and then failed upstream: it stored nothing, and the entry is
\* gone.
C30_Witness ==
    \E i, j \in Ids :
       /\ Fresh(j)
       /\ Failed(i) /\ reqs[i].statusCode = 500 /\ reqs[i].invocations = 1
       /\ reqs[i].attempts >= 1
       /\ getKey(reqs[i].body) = getKey(reqs[j].body)
       /\ reqs[i].startTime - reqs[j].endTime > ttlSeconds
       /\ cache = <<>>

\* C31: a check that denies leaves in the limiter exactly the timestamps it
\* held that are less than an hour old, in their order, and adds none; so any
\* check of any client at this or a later time is decided after it as it
\* would have been decided without it.
C31_DenialRecordsNothing ==
    [][\A i \in Ids :
          (Received(i) /\ ~reqs'[i].allowed) =>
             /\ requests' = SelectSeq(requests, LAMBDA r : r.time > now - HourTicks)
             /\ \A c \in Clients, t \in now..MaxTime :
                   isAllowed(requests', c, t).allowed = isAllowed(requests, c, t).allowed]_vars

\* A client was admitted, went on sending and was denied twice inside the
\* minute, and was admitted again at the first tick outside it.
C31_Witness ==
    \E i, j, k, l \in Ids :
       /\ i < j /\ j < k /\ k < l
       /\ reqs[j].clientId = reqs[i].clientId /\ reqs[k].clientId = reqs[i].clientId
       /\ reqs[l].clientId = reqs[i].clientId
       /\ reqs[i].allowed
       /\ reqs[j].pc = "done" /\ reqs[j].statusCode = 429
       /\ reqs[k].pc = "done" /\ reqs[k].statusCode = 429
       /\ reqs[k].startTime - reqs[i].startTime < MinuteTicks
       /\ reqs[l].allowed
       /\ reqs[l].startTime = reqs[i].startTime + MinuteTicks

\* The timestamps of client c among rs, and those of the other clients.
OnlyOf(rs, c) == SelectSeq(rs, LAMBDA r : r.clientId = c)
NotOf(rs, c) == SelectSeq(rs, LAMBDA r : r.clientId # c)

\* C32: a check of client c is decided as it would be with the timestamps of
\* all other clients erased from the limiter, and it does nothing to the
\* timestamps of the other clients but drop those an hour old.
C32_PerClientAdmission ==
    [][\A i \in Ids :
          Received(i) =>
             LET c == reqs'[i].clientId IN
             /\ reqs'[i].allowed = isAllowed(OnlyOf(requests, c), c, now).allowed
             /\ NotOf(requests', c) =
                   SelectSeq(NotOf(requests, c), LAMBDA r : r.time > now - HourTicks)]_vars

\* One client has used up its minute and was denied, and after that a
\* request of the other client was admitted in the same tick.
C32_Witness ==
    \E i, j, k \in Ids :
       /\ i < j /\ j < k
       /\ reqs[i].clientId = reqs[j].clientId
       /\ reqs[i].allowed
       /\ reqs[j].pc = "done" /\ reqs[j].statusCode = 429
       /\ reqs[k].clientId # reqs[i].clientId
       /\ reqs[k].startTime = reqs[j].startTime
       /\ reqs[k].startTime = reqs[i].startTime
       /\ reqs[k].allowed

\* Request j was answered with the fresh analysis `data` for the five values
\* `fields`.
Produced(j, fields, data) ==
    /\ Fresh(j)
    /\ Fields(reqs[j].body) = fields
    /\ reqs[j].analysis = data

\* C33: every cache entry holds an analysis that is not empty and that a
\* request with exactly the five values of the entry's key was answered with,
\* fresh, at the time the entry is stamped with; and every answer with
\* cached=true carries an analysis that is not empty and that a request with
\* the same five values was answered with, fresh.
C33_EntriesAreAnalyses ==
    /\ \A key \in DOMAIN cache :
          /\ cache[key].data # Null
          /\ \E j \in Ids :
                /\ Produced(j, key, cache[key].data)
                /\ reqs[j].endTime = cache[key].timestamp
    /\ \A i \in Ids :
          (reqs[i].pc = "done" /\ reqs[i].cached) =>
             /\ reqs[i].statusCode = 200
             /\ reqs[i].analysis # Null
             /\ \E j \in Ids \ {i} :
                   Produced(j, Fields(reqs[i].body), reqs[i].analysis)

\* An upstream call returned nothing for one input, which has no entry, and
\* another input was answered fresh and then from the cache.
C33_Witness ==
    \E i, j, k \in Ids :
       /\ reqs[k].pc = "done" /\ reqs[k].error = "empty"
       /\ getKey(reqs[k].body) \notin DOMAIN cache
       /\ Fresh(j)
       /\ reqs[i].pc = "done" /\ reqs[i].cached
       /\ reqs[i].analysis = reqs[j].analysis
       /\ getKey(reqs[i].body) \in DOMAIN cache

\* The requests that are answered in this step.
Answered == {i \in Ids : reqs[i].pc # "done" /\ reqs'[i].pc = "done"}

\* C34: a request that has been answered is not answered again; a step
\* answers at most one request, and then appends to the metrics one record,
\* with the status code of the answer (the oldest record leaving if the list
\* was full); no other step touches the metrics; so the records are as many
\* as the answers, up to what the list keeps.
C34_OneAnswerOneRecord ==
    [][/\ \A i \in Ids : reqs[i].pc = "done" => reqs'[i] = reqs[i]
       /\ Cardinality(Answered) <= 1
       /\ Answered = {} => metrics' = metrics
       /\ \A i \in Answered :
             /\ reqs'[i].statusCode \in {200, 206, 400, 404, 429, 500, 503}
             /\ Len(metrics') >= 1
             /\ metrics'[Len(metrics')].statusCode = reqs'[i].statusCode
             /\ SubSeq(metrics', 1, Len(metrics') - 1) \in
                   {metrics, SubSeq(metrics, 2, Len(metrics))}
       /\ LET answers == Cardinality({i \in Ids : reqs'[i].pc = "done"})
          IN Len(metrics') = IF answers < maxRecords THEN answers ELSE maxRecords]_vars

\* A request was answered by the catch (its body was no JSON) and another
\* with an analysis: two records, with the two status codes.
C34_Witness ==
    \E i, j \in Ids :
       /\ reqs[i].pc = "done" /\ reqs[i].body = Malformed /\ reqs[i].error = "server"
       /\ reqs[j].pc = "done" /\ reqs[j].statusCode = 200
       /\ Len(metrics) = 2
       /\ {metrics[1].statusCode, metrics[2].statusCode} = {200, 500}

\* The requests whose fresh analysis was stored under the key of body b, and
\* those among them that stored last.
Stored(b) == {j \in Ids : Fresh(j) /\ getKey(reqs[j].body) = getKey(b)}
StoredLast(b) == {j \in Stored(b) : \A k \in Stored(b) : reqs[k].endTime <= reqs[j].endTime}

\* C35: a store replaces the entry of its key by its own value stamped now,
\* whatever entry was there; and a lookup of a key that has been stored at
\* all hits exactly when the latest store of the key is at most the TTL old,
\* whenever the first was, and then returns the value of a latest store.
C35_SetOverwrites ==
    [][\A i \in Ids :
          /\ AnswersFresh(i) =>
                /\ cache'[getKey(reqs[i].body)] =
                      [data |-> reqs'[i].analysis, timestamp |-> now]
                /\ \A key \in DOMAIN cache \ {getKey(reqs[i].body)} :
                      key \in DOMAIN cache' /\ cache'[key] = cache[key]
          /\ (LooksUp(i) /\ Stored(reqs'[i].body) # {}) =>
                \E j \in StoredLast(reqs'[i].body) :
                   IF now - reqs[j].endTime <= ttlSeconds
                   THEN /\ reqs'[i].pc = "done" /\ reqs'[i].cached
                        /\ \E k \in StoredLast(reqs'[i].body) :
                              reqs'[i].analysis = reqs[k].analysis
                   ELSE reqs'[i].pc = "call"]_vars

\* A key was stored twice, a tick apart, and a lookup more than the TTL
\* after the first store and within it after the second was answered from
\* the cache with the second value.
C35_Witness ==
    \E i, j, k \in Ids :
       /\ Fresh(i) /\ Fresh(j)
       /\ getKey(reqs[i].body) = getKey(reqs[j].body)
       /\ reqs[i].endTime < reqs[j].endTime
       /\ reqs[k].pc = "done" /\ reqs[k].cached
       /\ getKey(reqs[k].body) = getKey(reqs[i].body)
       /\ reqs[k].endTime - reqs[i].endTime > ttlSeconds
       /\ reqs[k].endTime - reqs[j].endTime <= ttlSeconds
       /\ reqs[k].analysis = reqs[j].analysis
       /\ reqs[k].analysis # reqs[i].analysis

\* How many timestamps equal to r the list rs holds.
Copies(rs, r) == Cardinality({k \in DOMAIN rs : rs[k] = r})

\* C36: right after a check, whatever its answer, the limiter holds no
\* timestamp of any client that is one hour old or older, and still holds
\* every timestamp it held that is less than one hour old.
C36_PrunedOnCheck ==
    [][\A i \in Ids :
          Received(i) =>
             /\ \A k \in DOMAIN requests' : now - requests'[k].time < HourTicks
             /\ \A k \in DOMAIN requests :
                   now - requests[k].time < HourTicks =>
                      Copies(requests', requests[k]) >= Copies(requests, requests[k])]_vars

\* A check made exactly one hour after a client's first admission has
\* dropped that timestamp and kept a younger one of the same client.
C36_Witness ==
    \E i, j, l \in Ids :
       /\ reqs[i].allowed /\ reqs[j].allowed
       /\ reqs[j].clientId = reqs[i].clientId
       /\ reqs[j].startTime > reqs[i].startTime
       /\ reqs[l].pc # "new"
       /\ reqs[l].startTime = reqs[i].startTime + HourTicks
       /\ reqs[l].startTime = now
       /\ Copies(requests, [clientId |-> reqs[i].clientId, time |-> reqs[i].startTime]) = 0
       /\ Copies(requests, [clientId |-> reqs[j].clientId, time |-> reqs[j].startTime]) = 1

Errors(m) == Cardinality({k \in DOMAIN m : m[k].statusCode >= 400})

\* Request i is a readiness probe answered in this step.
Probed(i) ==
    /\ reqs[i].pc = "new" /\ reqs'[i].pc = "done"
    /\ reqs'[i].route = "GET /api/health/ready"

\* C38: the metrics keep at most maxRecords records; a readiness probe is
\* answered 503 and not_ready when more than maxReadyErrors of them have a
\* status of 400 or more, and 200 and ready otherwise; its own status is the
\* record it adds, so after a 503 the records still hold more than
\* maxReadyErrors errors, and a probe that follows at once is answered 503
\* as well.
C38_ReadyProbe ==
    [][\A i \in Ids :
          Probed(i) =>
             /\ Len(metrics) <= maxRecords /\ Len(metrics') <= maxRecords
             /\ IF Errors(metrics) > maxReadyErrors
                THEN /\ reqs'[i].statusCode = 503
                     /\ reqs'[i].reply.status = "not_ready"
                     /\ Errors(metrics') > maxReadyErrors
                ELSE /\ reqs'[i].statusCode = 200
                     /\ reqs'[i].reply.status = "ready"
             /\ metrics'[Len(metrics')].statusCode = reqs'[i].statusCode]_vars

\* Two requests were answered 404 and a probe 503, which left two error
\* records; a request answered 200 then pushed one of them out of the
\* records, and the next probe was answered 200.
C38_Witness ==
    \E i \in Ids :
       /\ i > 2 /\ i + 2 \in Ids
       /\ reqs[i - 2].statusCode = 404 /\ reqs[i - 1].statusCode = 404
       /\ reqs[i].route = "GET /api/health/ready" /\ reqs[i].statusCode = 503
       /\ reqs[i + 1].route = "GET /api/stats" /\ reqs[i + 1].statusCode = 200
       /\ reqs[i + 2].route = "GET /api/health/ready" /\ reqs[i + 2].statusCode = 200
       /\ Errors(metrics) = 0

====
